---- MODULE Spec2Model ----
(***************************************************************************)
(* Model of the watermark eraser: the App shell (src/App.tsx) and the      *)
(* CanvasEditor component (src/components/LoadingOverlay.tsx, lines        *)
(* 21-288) that owns the stroke model, the fit-to-container scale and the  *)
(* mask export.                                                            *)
(*                                                                         *)
(* One action is one event handler or asynchronous callback, run to        *)
(* completion together with the re-render and the effects that React       *)
(* commits for it (single-threaded event loop).  Asynchronous boundaries   *)
(* are explicit state: FileReader loads in flight (readers), image         *)
(* decodes in flight (decodes) and removeWatermark calls in flight         *)
(* (requests).                                                             *)
(*                                                                         *)
(* Not modelled: errorMsg and originalMimeType of App (display text only,  *)
(* read by no handler's condition), and the pixels of the live overlay.    *)
(***************************************************************************)
EXTENDS Integers, Sequences, FiniteSets, TLC

(***************************************************************************)
(* Bounds of the exploration.                                              *)
(***************************************************************************)
\* Points recorded in the stroke model (completed + in progress) at most.
MaxPts == 2
\* Largest value of exportTrigger explored.
MaxTrigger == 2

(***************************************************************************)
(* Input domains.                                                          *)
(***************************************************************************)
\* imageSrc / processedImage when null.
NoImage == 0
\* Largest image side and container side given to the scaler on its own.
MaxSide == 7
\* Files the user can pick; each is an image with its own native size.
Images == {1, 2}
\* img.width / img.height of the decoded file.
NativeDims(i) == IF i = 1 THEN [width |-> 2, height |-> 12]
                 ELSE [width |-> 2, height |-> 2]
\* Values of the brush slider (min 5, initial 30).
BrushSizes == {5, 30}
\* <<clientWidth, clientHeight>> the container div can measure when it is read.
Containers == {<<2, 0>>, <<0, 8>>}
\* Pointer events: mouse events, touch events with one touch, touch events
\* with no touch left; positions are clientX / clientY.
PointerEvents ==
    [kind : {"mouse"}, touches : {0}, clientX : {1, 2}, clientY : {0}]
    \cup [kind : {"touch"}, touches : {1}, clientX : {1, 2}, clientY : {0}]
    \cup [kind : {"touch"}, touches : {0}, clientX : {0}, clientY : {0}]

(***************************************************************************)
(* JavaScript numbers that arise from integers by + - * / are modelled as  *)
(* reduced fractions [n, d] with d >= 0: d = 0 encodes Infinity (n = 1),   *)
(* -Infinity (n = -1) and NaN (n = 0).                                     *)
(***************************************************************************)
Abs(k) == IF k < 0 THEN -k ELSE k

Sign(k) == IF k < 0 THEN -1 ELSE IF k > 0 THEN 1 ELSE 0

RECURSIVE GCD(_, _)
GCD(a, b) == IF b = 0 THEN a ELSE GCD(b, a % b)

Norm(n, d) ==
    IF d = 0 THEN [n |-> Sign(n), d |-> 0]
    ELSE LET g == GCD(Abs(n), Abs(d))
             s == Sign(d)
         IN  [n |-> (s * n) \div g, d |-> (s * d) \div g]

Num(k) == [n |-> k, d |-> 1]

NaN == [n |-> 0, d |-> 0]

IsNaN(a) == a.n = 0 /\ a.d = 0

IsFinite(a) == a.d # 0

NumDiv(a, b) == Norm(a.n * b.d, a.d * b.n)

NumMul(a, b) == Norm(a.n * b.n, a.d * b.d)

NumSub(a, b) ==
    IF a.d # 0 /\ b.d # 0 THEN Norm(a.n * b.d - b.n * a.d, a.d * b.d)
    ELSE IF a.d = 0 /\ b.d = 0 THEN (IF a.n = -b.n /\ a.n # 0 THEN a ELSE NaN)
    ELSE IF a.d = 0 THEN a
    ELSE Norm(-b.n, 0)

\* a < b on non-NaN numbers.
NumLess(a, b) ==
    IF a.d # 0 /\ b.d # 0 THEN a.n * b.d < b.n * a.d
    ELSE IF a.d = 0 /\ b.d = 0 THEN a.n < b.n
    ELSE IF a.d = 0 THEN a.n < 0
    ELSE b.n > 0

\* Math.min of two numbers: NaN if either is NaN.
NumMin(a, b) ==
    IF IsNaN(a) \/ IsNaN(b) THEN NaN
    ELSE IF NumLess(b, a) THEN b ELSE a

(***************************************************************************)
(* State.                                                                  *)
(***************************************************************************)
VARIABLES
    \* App (src/App.tsx)
    imageSrc,        \* the loaded file, or NoImage
    brushSize,
    isProcessing,
    processedImage,  \* NoImage, or the image whose request produced the result
    exportTrigger,
    \* asynchronous work in flight
    readers,         \* files a FileReader is still reading
    requests,        \* removeWatermark calls awaiting their response
    decodes,         \* images the mounted editor is still decoding
    \* CanvasEditor (src/components/LoadingOverlay.tsx)
    isDrawing,
    paths,
    currentPath,
    imgDimensions,
    scale,
    \* history
    handed,          \* the masks the last step handed to onMaskReady
    startBrush,      \* brushSize when the current or just ended gesture began
    scen,            \* the gestures and undos since the model was last empty
    prevMask         \* the mask of the editor's last export, while the
                     \* stroke model is as it was at that export

appVars == <<imageSrc, brushSize, isProcessing, processedImage, exportTrigger>>
asyncVars == <<readers, requests, decodes>>
editorVars == <<isDrawing, paths, currentPath, imgDimensions, scale>>
histVars == <<handed, startBrush, scen, prevMask>>
vars == <<appVars, asyncVars, editorVars, histVars>>

\* window.innerHeight, used by the fallback container height.
WindowInnerHeight == 10

\* CanvasEditor is rendered by App exactly when an image is selected and no
\* result is shown.
Mounted == imageSrc # NoImage /\ processedImage = NoImage

\* The <canvas> element exists once the dimensions are known.
CanvasRendered == Mounted /\ imgDimensions.width > 0

NoDimensions == [width |-> 0, height |-> 0]

\* Variant of FreshEditor: the completed strokes survive the unmount, as if
\* paths were state of App.
FreshEditorKeepsPaths ==
    /\ isDrawing' = FALSE
    /\ paths' = paths
    /\ currentPath' = <<>>
    /\ imgDimensions' = NoDimensions
    /\ scale' = Num(1)

\* useState initial values of CanvasEditor.
FreshEditor ==
    /\ isDrawing' = FALSE
    /\ paths' = <<>>
    /\ currentPath' = <<>>
    /\ imgDimensions' = NoDimensions
    /\ scale' = Num(1)

(***************************************************************************)
(* Fit-to-Container Scaler.                                                *)
(***************************************************************************)
\* Variant of fitImageToContainer: Math.min without the 1, so that small
\* images are scaled up.
fitImageToContainerNoCap(c, imgW, imgH) ==
    LET containerW == Num(c[1])
        containerH == IF c[2] # 0 THEN Num(c[2])
                      ELSE NumMul(Num(WindowInnerHeight), Norm(6, 10))
        scaleW == NumDiv(containerW, Num(imgW))
        scaleH == NumDiv(containerH, Num(imgH))
    IN  NumMin(scaleW, scaleH)

fitImageToContainer(c, imgW, imgH) ==
    LET containerW == Num(c[1])
        containerH == IF c[2] # 0 THEN Num(c[2])
                      ELSE NumMul(Num(WindowInnerHeight), Norm(6, 10))
        scaleW == NumDiv(containerW, Num(imgW))
        scaleH == NumDiv(containerH, Num(imgH))
    IN  NumMin(NumMin(scaleW, scaleH), Num(1))

(***************************************************************************)
(* Coordinate Mapper.                                                      *)
(***************************************************************************)
\* getBoundingClientRect of the canvas: its CSS size is the image size times
\* the scale; the canvas is taken to sit at the viewport origin.
BoundingClientRect(dims, s) ==
    [left |-> Num(0), top |-> Num(0),
     width |-> NumMul(Num(dims.width), s),
     height |-> NumMul(Num(dims.height), s)]

\* <<>> for null, <<point>> otherwise.  canvasW / canvasH are the size of the
\* canvas pixel buffer.
getCoordinates(e, rect, canvasW, canvasH) ==
    IF e.kind = "touch" /\ e.touches = 0 THEN <<>>
    ELSE <<[x |-> NumMul(NumSub(Num(e.clientX), rect.left),
                         NumDiv(Num(canvasW), rect.width)),
            y |-> NumMul(NumSub(Num(e.clientY), rect.top),
                         NumDiv(Num(canvasH), rect.height))]>>

\* The point a handler of the mounted editor gets for event e: the render
\* effect has set the pixel buffer to imgDimensions.
EventPoint(e) ==
    getCoordinates(e, BoundingClientRect(imgDimensions, scale),
                   imgDimensions.width, imgDimensions.height)

\* The canvas has zero display width or height.
ZeroDisplay ==
    LET rect == BoundingClientRect(imgDimensions, scale)
    IN  rect.width = Num(0) \/ rect.height = Num(0)

\* Delivery of pointer events.  A mouse event and a touch-start go to the
\* element under the pointer, so the canvas gets them only while its box is
\* not empty; a touch-move goes to the element its touch started on,
\* whatever its box has become.
Delivered(e, down) ==
    IF e.kind = "touch" /\ ~down THEN TRUE ELSE ~ZeroDisplay

(***************************************************************************)
(* Stroke Model.                                                           *)
(***************************************************************************)
RECURSIVE TotalPts(_)
TotalPts(ps) ==
    IF ps = <<>> THEN 0 ELSE Len(Head(ps).points) + TotalPts(Tail(ps))

\* Room for one more recorded point within the bound.
Room == TotalPts(paths) + Len(currentPath) < MaxPts

\* Variants of finalizeStroke: the new stroke put first; the new stroke with
\* the initial brush size whatever the slider says; every stroke given the
\* width of the new one.
finalizeStrokeRestyle(ps, cur, size) ==
    Append([i \in 1..Len(ps) |-> [ps[i] EXCEPT !.size = size]],
           [points |-> cur, size |-> size])
finalizeStrokeFirst(ps, cur, size) == <<[points |-> cur, size |-> size]>> \o ps
finalizeStrokeInitialBrush(ps, cur, size) ==
    Append(ps, [points |-> cur, size |-> 30])

\* stopDrawing's promotion of the in-progress stroke.
finalizeStroke(ps, cur, size) == Append(ps, [points |-> cur, size |-> size])

\* Variant of undoLast: the oldest stroke removed.
undoFirst(ps) == IF ps = <<>> THEN <<>> ELSE Tail(ps)

\* p.slice(0, -1)
undoLast(ps) == SubSeq(ps, 1, Len(ps) - 1)

(***************************************************************************)
(* Mask Exporter.  The mask is the PNG of a canvas; it is modelled by the  *)
(* canvas size and the list of sub-paths stroked on the black fill.        *)
(***************************************************************************)
\* moveTo(points[0]) followed by lineTo(points[i]), i >= 1.
RECURSIVE LineTos(_, _)
LineTos(sub, rest) ==
    IF rest = <<>> THEN sub ELSE LineTos(Append(sub, Head(rest)), Tail(rest))

SubPath(points) == LineTos(<<points[1]>>, Tail(points))

RECURSIVE StrokePaths(_, _)
StrokePaths(drawn, ps) ==
    IF ps = <<>> THEN drawn
    ELSE StrokePaths(Append(drawn, [lineWidth |-> Head(ps).size,
                                    strokeStyle |-> "white",
                                    sub |-> SubPath(Head(ps).points)]),
                     Tail(ps))

generateMask(dims, ps) ==
    [width |-> dims.width, height |-> dims.height, fillStyle |-> "black",
     strokes |-> StrokePaths(<<>>, ps)]

\* The export effect for a committed value of triggerExport: the masks it
\* hands to onMaskReady (none or one).
\* Variant of exportEffect: the mask drawn like the on-screen overlay, the
\* stroke in progress included.
exportEffectWithCurrent(trigger, dims, ps) ==
    IF trigger = 0 THEN <<>>
    ELSE <<generateMask(dims,
              IF currentPath = <<>> THEN ps
              ELSE Append(ps, [points |-> currentPath, size |-> brushSize]))>>

\* Variant of exportEffect: the test of the initial trigger value left out.
exportEffectUnguarded(trigger, dims, ps) == <<generateMask(dims, ps)>>

exportEffect(trigger, dims, ps) ==
    IF trigger = 0 THEN <<>> ELSE <<generateMask(dims, ps)>>

\* handleMaskReady up to its await, for each mask in out, with source image
\* src: the requests in flight afterwards.  A request is identified by its
\* source image; the mask and mime type sent along do not influence what
\* the response does to the state.
RECURSIVE startRequests(_, _, _)
startRequests(reqs, src, out) ==
    IF out = <<>> \/ src = NoImage THEN reqs
    ELSE startRequests(Append(reqs, [src |-> src]), src, Tail(out))

(***************************************************************************)
(* History of the gesture scenario: from an empty model, n gestures (each  *)
(* startDrawing, draw*, stopDrawing recording a point) and then undo       *)
(* clicks.  cur holds the points the gesture in progress was given, done   *)
(* the points of the finished gestures that have not been undone, in       *)
(* gesture order.  A begin during a gesture, a begin after an undo, and an *)
(* undo or clear during a gesture leave the scenario (phase "off") until   *)
(* the model is empty again.                                               *)
(***************************************************************************)
NoGestures ==
    [phase |-> "gestures", n |-> 0, undos |-> 0, done |-> <<>>, cur |-> <<>>]

OffScenario ==
    [phase |-> "off", n |-> 0, undos |-> 0, done |-> <<>>, cur |-> <<>>]

ModelEmpty == paths = <<>> /\ currentPath = <<>> /\ ~isDrawing

GestureBegins(p) ==
    IF ModelEmpty THEN [NoGestures EXCEPT !.cur = <<p>>]
    ELSE IF scen.phase = "gestures" /\ ~isDrawing
    THEN [scen EXCEPT !.cur = <<p>>]
    ELSE OffScenario

GestureExtends(p) ==
    IF scen.phase = "gestures" THEN [scen EXCEPT !.cur = Append(@, p)]
    ELSE scen

GestureEnds ==
    IF scen.phase = "gestures" /\ isDrawing
    THEN [scen EXCEPT !.n = @ + 1, !.done = Append(@, scen.cur), !.cur = <<>>]
    ELSE scen

UndoCounted ==
    IF scen.phase \in {"gestures", "undos"} /\ ~isDrawing
    THEN [scen EXCEPT !.phase = "undos", !.undos = @ + 1,
                      !.done = SubSeq(@, 1, Len(@) - 1)]
    ELSE OffScenario

Cleared == IF isDrawing THEN OffScenario ELSE NoGestures

\* The mask out of this step's export is remembered; without an export the
\* remembered mask is kept as long as the stroke model is not changed.
Remember(out) ==
    prevMask' = IF out # <<>> THEN out
                ELSE IF paths' = paths /\ currentPath' = currentPath
                THEN prevMask
                ELSE <<>>

\* startBrush is kept while a gesture is open.
KeepStartBrush == startBrush' = IF isDrawing' THEN startBrush ELSE 0

(***************************************************************************)
(* Initial state: App mounted, no image selected.                          *)
(***************************************************************************)
Init ==
    /\ imageSrc = NoImage
    /\ brushSize = 30
    /\ isProcessing = FALSE
    /\ processedImage = NoImage
    /\ exportTrigger = 0
    /\ readers = {}
    /\ requests = <<>>
    /\ decodes = {}
    /\ isDrawing = FALSE
    /\ paths = <<>>
    /\ currentPath = <<>>
    /\ imgDimensions = NoDimensions
    /\ scale = Num(1)
    /\ handed = <<>>
    /\ startBrush = 0
    /\ scen = NoGestures
    /\ prevMask = <<>>


(***************************************************************************)
(* App handlers.                                                           *)
(***************************************************************************)
\* The file input is rendered only while no image is selected; the read is
\* asynchronous.
handleFileChange(f) ==
    /\ imageSrc = NoImage
    /\ readers' = readers \cup {f}
    /\ handed' = <<>>
    /\ UNCHANGED <<appVars, requests, decodes, editorVars, scen>>
    /\ KeepStartBrush
    /\ Remember(<<>>)

\* reader.onload.  A CanvasEditor mounted by this render starts with fresh
\* state and runs its effects: the image load, and the export effect with the
\* committed exportTrigger.  A CanvasEditor that was mounted already keeps its
\* state and re-runs only the effects that depend on imageSrc.
ReaderOnload(f) ==
    /\ f \in readers
    /\ readers' = readers \ {f}
    /\ imageSrc' = f
    /\ processedImage' = NoImage
    /\ UNCHANGED <<brushSize, exportTrigger>>
    /\ IF Mounted
       THEN /\ decodes' = IF f # imageSrc THEN decodes \cup {f} ELSE decodes
            /\ handed' = <<>>
            /\ UNCHANGED <<isProcessing, requests, editorVars, scen>>
            /\ KeepStartBrush
            /\ Remember(<<>>)
       ELSE LET out == exportEffect(exportTrigger, NoDimensions, <<>>)
            IN  /\ FreshEditor
                /\ decodes' = {f}
                /\ handed' = out
                /\ prevMask' = out
                /\ requests' = startRequests(requests, f, out)
                /\ isProcessing' = IF out # <<>> THEN TRUE ELSE isProcessing
                /\ startBrush' = 0
                /\ scen' = NoGestures

\* Variant of handleStartProcessing: the start button never disabled.
handleStartProcessingAlways ==
    /\ imageSrc # NoImage /\ processedImage = NoImage
    /\ exportTrigger < MaxTrigger
    /\ exportTrigger' = exportTrigger + 1
    /\ LET out == exportEffect(exportTrigger + 1, imgDimensions, paths)
       IN  /\ handed' = out
           /\ requests' = startRequests(requests, imageSrc, out)
           /\ isProcessing' = IF out # <<>> THEN TRUE ELSE isProcessing
    /\ UNCHANGED <<imageSrc, brushSize, processedImage, readers, decodes,
                   editorVars, scen>>
    /\ KeepStartBrush
    /\ Remember(handed')

\* The start button: rendered while the editor is, disabled while processing.
\* The click increments exportTrigger; the export effect of that render
\* builds the mask and calls onMaskReady = handleMaskReady, which runs up to
\* its await.
handleStartProcessing ==
    /\ imageSrc # NoImage /\ processedImage = NoImage
    /\ ~isProcessing
    /\ exportTrigger < MaxTrigger
    /\ exportTrigger' = exportTrigger + 1
    /\ LET out == exportEffect(exportTrigger + 1, imgDimensions, paths)
       IN  /\ handed' = out
           /\ requests' = startRequests(requests, imageSrc, out)
           /\ isProcessing' = IF out # <<>> THEN TRUE ELSE isProcessing
    /\ UNCHANGED <<imageSrc, brushSize, processedImage, readers, decodes,
                   editorVars, scen>>
    /\ KeepStartBrush
    /\ Remember(handed')

\* The editor is unmounted by a render that shows a result or no image.
UnmountEditor ==
    /\ IF Mounted THEN FreshEditor /\ decodes' = {}
       ELSE UNCHANGED <<editorVars, decodes>>
    /\ startBrush' = 0
    /\ scen' = NoGestures
    /\ prevMask' = <<>>

Without(reqs, k) == SubSeq(reqs, 1, k - 1) \o SubSeq(reqs, k + 1, Len(reqs))

\* removeWatermark resolved: try-branch and finally of handleMaskReady.
RequestResolves(k) ==
    /\ k \in 1..Len(requests)
    /\ processedImage' = requests[k].src
    /\ isProcessing' = FALSE
    /\ requests' = Without(requests, k)
    /\ UnmountEditor
    /\ handed' = <<>>
    /\ UNCHANGED <<imageSrc, brushSize, exportTrigger, readers>>

\* Variant of RequestRejects: the finally block left out.
RequestRejectsNoFinally(k) ==
    /\ k \in 1..Len(requests)
    /\ requests' = Without(requests, k)
    /\ handed' = <<>>
    /\ UNCHANGED <<imageSrc, brushSize, isProcessing, processedImage,
                   exportTrigger, readers, decodes, editorVars, scen>>
    /\ KeepStartBrush
    /\ Remember(<<>>)

\* removeWatermark threw: catch-branch and finally of handleMaskReady.
RequestRejects(k) ==
    /\ k \in 1..Len(requests)
    /\ isProcessing' = FALSE
    /\ requests' = Without(requests, k)
    /\ handed' = <<>>
    /\ UNCHANGED <<imageSrc, brushSize, processedImage, exportTrigger, readers,
                   decodes, editorVars, scen>>
    /\ KeepStartBrush
    /\ Remember(<<>>)

\* The reset button is part of the editor interface (imageSrc set).
handleReset ==
    /\ imageSrc # NoImage
    /\ imageSrc' = NoImage
    /\ processedImage' = NoImage
    /\ exportTrigger' = 0
    /\ UnmountEditor
    /\ handed' = <<>>
    /\ UNCHANGED <<brushSize, isProcessing, readers, requests>>

\* The brush slider: disabled while processing or showing a result.
setBrushSize(b) ==
    /\ imageSrc # NoImage /\ ~isProcessing /\ processedImage = NoImage
    /\ b # brushSize
    /\ brushSize' = b
    /\ handed' = <<>>
    /\ UNCHANGED <<imageSrc, isProcessing, processedImage, exportTrigger,
                   asyncVars, editorVars, scen>>
    /\ KeepStartBrush
    /\ Remember(<<>>)

(***************************************************************************)
(* CanvasEditor handlers.                                                  *)
(***************************************************************************)
\* img.onload of the image load effect; c is what the container measures
\* now.  (Callbacks of an unmounted editor set no state and are dropped at
\* unmount.)
ImgOnload(i, c) ==
    /\ Mounted
    /\ i \in decodes
    /\ decodes' = decodes \ {i}
    /\ imgDimensions' = NativeDims(i)
    /\ scale' = fitImageToContainer(c, NativeDims(i).width,
                                    NativeDims(i).height)
    /\ handed' = <<>>
    /\ UNCHANGED <<appVars, readers, requests, isDrawing, paths, currentPath, scen>>
    /\ KeepStartBrush
    /\ Remember(<<>>)

\* The window resize listener of the mounted editor; c is what the container
\* measures now.
handleResize(c) ==
    /\ Mounted
    /\ scale' = IF imgDimensions.width > 0
                THEN fitImageToContainer(c, imgDimensions.width,
                                         imgDimensions.height)
                ELSE scale
    /\ handed' = <<>>
    /\ UNCHANGED <<appVars, asyncVars, isDrawing, paths, currentPath,
                   imgDimensions, scen>>
    /\ KeepStartBrush
    /\ Remember(<<>>)

\* Variant of startDrawing: the isProcessing test left out.
startDrawingUnguarded(e) ==
    /\ CanvasRendered
    /\ Delivered(e, TRUE)
    /\ Room
    /\ LET point == EventPoint(e)
       IN  IF point # <<>>
           THEN /\ isDrawing' = TRUE
                /\ currentPath' = <<point[1]>>
                /\ startBrush' = brushSize
                /\ scen' = GestureBegins(point[1])
           ELSE /\ UNCHANGED <<isDrawing, currentPath, scen>>
                /\ KeepStartBrush
    /\ handed' = <<>>
    /\ UNCHANGED <<appVars, asyncVars, paths, imgDimensions, scale>>
    /\ Remember(<<>>)

\* onMouseDown / onTouchStart
startDrawing(e) ==
    /\ CanvasRendered
    /\ Delivered(e, TRUE)
    /\ Room
    /\ LET point == EventPoint(e)
       IN  IF ~isProcessing /\ point # <<>>
           THEN /\ isDrawing' = TRUE
                /\ currentPath' = <<point[1]>>
                /\ startBrush' = brushSize
                /\ scen' = GestureBegins(point[1])
           ELSE /\ UNCHANGED <<isDrawing, currentPath, scen>>
                /\ KeepStartBrush
    /\ handed' = <<>>
    /\ UNCHANGED <<appVars, asyncVars, paths, imgDimensions, scale>>
    /\ Remember(<<>>)

\* Variant of draw: the isDrawing test left out.
drawWithoutGesture(e) ==
    /\ CanvasRendered
    /\ Delivered(e, FALSE)
    /\ Room
    /\ LET point == EventPoint(e)
       IN  IF ~isProcessing /\ point # <<>>
           THEN /\ currentPath' = Append(currentPath, point[1])
                /\ scen' = GestureExtends(point[1])
           ELSE UNCHANGED <<currentPath, scen>>
    /\ handed' = <<>>
    /\ UNCHANGED <<appVars, asyncVars, isDrawing, paths, imgDimensions, scale>>
    /\ KeepStartBrush
    /\ Remember(<<>>)

\* onMouseMove / onTouchMove
draw(e) ==
    /\ CanvasRendered
    /\ Delivered(e, FALSE)
    /\ Room
    /\ LET point == EventPoint(e)
       IN  IF isDrawing /\ ~isProcessing /\ point # <<>>
           THEN /\ currentPath' = Append(currentPath, point[1])
                /\ scen' = GestureExtends(point[1])
           ELSE UNCHANGED <<currentPath, scen>>
    /\ handed' = <<>>
    /\ UNCHANGED <<appVars, asyncVars, isDrawing, paths, imgDimensions, scale>>
    /\ KeepStartBrush
    /\ Remember(<<>>)

\* Variant of stopDrawing: setCurrentPath([]) left out.
stopDrawingKeepsCurrent ==
    /\ CanvasRendered
    /\ IF isDrawing /\ Len(currentPath) > 0
       THEN /\ paths' = finalizeStroke(paths, currentPath, brushSize)
            /\ UNCHANGED <<currentPath, startBrush>>
       ELSE /\ UNCHANGED <<paths, currentPath>>
            /\ startBrush' = 0
    /\ isDrawing' = FALSE
    /\ scen' = GestureEnds
    /\ handed' = <<>>
    /\ UNCHANGED <<appVars, asyncVars, imgDimensions, scale>>
    /\ Remember(<<>>)

\* Variant of stopDrawing: the currentPath.length test left out.
stopDrawingPromotesEmpty ==
    /\ CanvasRendered
    /\ IF isDrawing
       THEN /\ paths' = finalizeStroke(paths, currentPath, brushSize)
            /\ currentPath' = <<>>
            /\ UNCHANGED startBrush
       ELSE /\ UNCHANGED <<paths, currentPath>>
            /\ startBrush' = 0
    /\ isDrawing' = FALSE
    /\ scen' = GestureEnds
    /\ handed' = <<>>
    /\ UNCHANGED <<appVars, asyncVars, imgDimensions, scale>>
    /\ Remember(<<>>)

\* onMouseUp / onMouseLeave / onTouchEnd
stopDrawing ==
    /\ CanvasRendered
    /\ IF isDrawing /\ Len(currentPath) > 0
       THEN /\ paths' = finalizeStroke(paths, currentPath, brushSize)
            /\ currentPath' = <<>>
            /\ UNCHANGED startBrush
       ELSE /\ UNCHANGED <<paths, currentPath>>
            /\ startBrush' = 0
    /\ isDrawing' = FALSE
    /\ scen' = GestureEnds
    /\ handed' = <<>>
    /\ UNCHANGED <<appVars, asyncVars, imgDimensions, scale>>
    /\ Remember(<<>>)

\* The undo button: rendered while there are paths and not processing.
UndoClick ==
    /\ Mounted /\ Len(paths) > 0 /\ ~isProcessing
    /\ paths' = undoLast(paths)
    /\ scen' = UndoCounted
    /\ handed' = <<>>
    /\ UNCHANGED <<appVars, asyncVars, isDrawing, currentPath, imgDimensions,
                   scale>>
    /\ KeepStartBrush
    /\ Remember(<<>>)

\* Variant of ClearClick: setCurrentPath([]) left out.
ClearClickPathsOnly ==
    /\ Mounted /\ Len(paths) > 0 /\ ~isProcessing
    /\ paths' = <<>>
    /\ scen' = Cleared
    /\ handed' = <<>>
    /\ UNCHANGED <<appVars, asyncVars, isDrawing, currentPath, imgDimensions,
                   scale>>
    /\ KeepStartBrush
    /\ Remember(<<>>)

\* The clear button: rendered while there are paths and not processing.
ClearClick ==
    /\ Mounted /\ Len(paths) > 0 /\ ~isProcessing
    /\ paths' = <<>>
    /\ currentPath' = <<>>
    /\ scen' = Cleared
    /\ handed' = <<>>
    /\ UNCHANGED <<appVars, asyncVars, isDrawing, imgDimensions, scale>>
    /\ KeepStartBrush
    /\ Remember(<<>>)

Next ==
    \/ \E f \in Images : handleFileChange(f)
    \/ \E f \in Images : ReaderOnload(f)
    \/ handleStartProcessing
    \/ \E k \in 1..Len(requests) : RequestResolves(k)
    \/ \E k \in 1..Len(requests) : RequestRejects(k)
    \/ handleReset
    \/ \E b \in BrushSizes : setBrushSize(b)
    \/ \E i \in Images, c \in Containers : ImgOnload(i, c)
    \/ \E c \in Containers : handleResize(c)
    \/ \E e \in PointerEvents : startDrawing(e)
    \/ \E e \in PointerEvents : draw(e)
    \/ stopDrawing
    \/ UndoClick
    \/ ClearClick

Spec == Init /\ [][Next]_vars

(***************************************************************************)
(* The Fit-to-Container Scaler on its own: an editor showing a decoded     *)
(* image whose native width and height are any of 1..MaxSide, resized to   *)
(* every container of up to MaxSide by MaxSide, zero sides included.       *)
(***************************************************************************)
FitSides == 1..MaxSide
FitContainers == (0..MaxSide) \X (0..MaxSide)

FitInit ==
    /\ imageSrc = 1
    /\ brushSize = 30
    /\ isProcessing = FALSE
    /\ processedImage = NoImage
    /\ exportTrigger = 0
    /\ readers = {}
    /\ requests = <<>>
    /\ decodes = {}
    /\ isDrawing = FALSE
    /\ paths = <<>>
    /\ currentPath = <<>>
    /\ imgDimensions \in [width : FitSides, height : FitSides]
    /\ scale = Num(1)
    /\ handed = <<>>
    /\ startBrush = 0
    /\ scen = NoGestures
    /\ prevMask = <<>>

FitNext == \E c \in FitContainers : handleResize(c)

FitSpec == FitInit /\ [][FitNext]_vars

TypeOK ==
    /\ imageSrc \in Images \cup {NoImage}
    /\ processedImage \in Images \cup {NoImage}
    /\ brushSize \in BrushSizes
    /\ isProcessing \in BOOLEAN
    /\ isDrawing \in BOOLEAN
    /\ exportTrigger \in 0..MaxTrigger
    /\ readers \subseteq Images
    /\ decodes \subseteq Images
    /\ TotalPts(paths) + Len(currentPath) <= MaxPts

(***************************************************************************)
(* Claims.                                                                 *)
(***************************************************************************)
\* A step of a pointer handler or of the undo / clear buttons.
EditStep ==
    \/ \E e \in PointerEvents : startDrawing(e)
    \/ \E e \in PointerEvents : draw(e)
    \/ stopDrawing
    \/ UndoClick
    \/ ClearClick

\* C1: while the processing flag is true, no pointer event, undo or clear
\* changes the completed strokes, the end of a gesture that was in progress
\* when processing began included.
C1_StrokesFrozenWhileProcessing ==
    [][(isProcessing /\ EditStep) => paths' = paths]_vars

StrokePoints(ps) == [i \in 1..Len(ps) |-> ps[i].points]

\* C2: from an empty model, after n gestures that each recorded a point there
\* are exactly n completed strokes, holding the gestures' points in gesture
\* order; after k undo clicks the first n - k of them are left, so n undo
\* clicks leave the model empty.
C2_GesturesThenUndos ==
    scen.phase # "off" =>
        /\ Len(paths) = scen.n - scen.undos
        /\ StrokePoints(paths) = scen.done
        /\ (scen.undos = scen.n => paths = <<>>)

\* Two gestures followed by two undo clicks.
C2_TwoGesturesTwoUndos ==
    scen.phase = "undos" /\ scen.n = 2 /\ scen.undos = 2 /\ paths = <<>>

\* C3: a step hands a mask to onMaskReady exactly once if it increments the
\* export trigger and not at all otherwise, so callbacks and increments stay
\* equal in number.
C3_OneCallbackPerIncrement ==
    [][Len(handed') = (IF exportTrigger' = exportTrigger + 1 THEN 1 ELSE 0)]_vars

\* C4: an increment of the export trigger while the image dimensions are
\* unknown hands no mask to onMaskReady and starts no request.
C4_NoExportBeforeDimensions ==
    [][(exportTrigger' = exportTrigger + 1 /\ imgDimensions = NoDimensions)
        => (handed' = <<>> /\ requests' = requests)]_vars

\* A step that promotes the in-progress stroke.
Promotes == Len(paths') = Len(paths) + 1

MaskStrokes(mask) ==
    [i \in 1..Len(mask.strokes) |->
        [points |-> mask.strokes[i].sub, size |-> mask.strokes[i].lineWidth]]

\* C6: the mask handed over by an export holds exactly the completed strokes
\* at the moment of the trigger, in insertion order, each with its points and
\* width, all in white; the stroke in progress is not in it.
C6_MaskFromCompletedStrokes ==
    handed # <<>> =>
        /\ MaskStrokes(handed[1]) = paths
        /\ \A i \in 1..Len(handed[1].strokes) :
               handed[1].strokes[i].strokeStyle = "white"

\* An export with a completed stroke and a stroke in progress.
C6_ExportDuringGesture ==
    handed # <<>> /\ paths # <<>> /\ isDrawing /\ currentPath # <<>>

\* C7: a step that loads a new source image or resets the session leaves
\* the stroke model empty.
C7_NewImageEmptiesModel ==
    [][imageSrc' # imageSrc => (paths' = <<>> /\ currentPath' = <<>>)]_vars

\* C8: every mask handed to onMaskReady has the native width and height of
\* the current source image.
C8_MaskHasImageDimensions ==
    handed # <<>> =>
        /\ handed[1].width = NativeDims(imageSrc).width
        /\ handed[1].height = NativeDims(imageSrc).height

\* C9: clearAll leaves no completed stroke and no in-progress stroke.
C9_ClearEmptiesModel ==
    [][ClearClick => (paths' = <<>> /\ currentPath' = <<>>)]_vars

\* The model after a clear in the middle of a gesture: still drawing, with
\* nothing recorded.
C9_ClearedDuringGesture ==
    Mounted /\ isDrawing /\ paths = <<>> /\ currentPath = <<>>

\* C10: undoLast removes the last completed stroke, keeps the earlier ones
\* in order and keeps the in-progress stroke; on no strokes it yields none.
C10_UndoRemovesLast ==
    [][/\ undoLast(<<>>) = <<>>
       /\ UndoClick =>
            /\ Len(paths') = Len(paths) - 1
            /\ \A i \in 1..Len(paths') : paths'[i] = paths[i]
            /\ currentPath' = currentPath]_vars

\* One undo after two gestures: the first stroke is left.
C10_UndoneOnce ==
    scen.phase = "undos" /\ scen.n = 2 /\ scen.undos = 1 /\ Len(paths) = 1

\* C11: a pointer-down or touch-start while the processing flag is true
\* changes neither the completed strokes nor the in-progress stroke nor the
\* Idle / Drawing state.
C11_BeginIgnoredWhileProcessing ==
    [][(isProcessing /\ \E e \in PointerEvents : startDrawing(e))
        => (paths' = paths /\ currentPath' = currentPath
            /\ isDrawing' = isDrawing)]_vars

\* Processing, with the canvas on screen and idle: a pointer-down can arrive.
C11_CanvasShownWhileProcessing ==
    isProcessing /\ CanvasRendered /\ Room /\ ~isDrawing /\ requests # <<>>

\* C12: while the export trigger has its initial value 0 no step hands a
\* mask to onMaskReady, the steps that mount the editor included.
C12_InitialTriggerNeverExports ==
    exportTrigger = 0 => handed = <<>>

\* The editor mounted again after a reset (the flag of the request started
\* before the reset is still up), trigger back at 0.
C12_RemountedAfterReset ==
    Mounted /\ exportTrigger = 0 /\ isProcessing /\ handed = <<>>

\* C13: a step in which an outstanding removeWatermark call fails leaves the
\* processing flag false, the completed strokes, the in-progress stroke and
\* the image as they were and no processed image; and whenever the flag is
\* false and the editor is mounted, the start button can be pressed and,
\* with strokes present, so can undo and clear.
C13_FailureReturnsToInteractive ==
    /\ [][(\E k \in 1..Len(requests) : RequestRejects(k))
            => /\ ~isProcessing'
               /\ paths' = paths /\ currentPath' = currentPath
               /\ processedImage' = NoImage
               /\ UNCHANGED <<imageSrc, imgDimensions, exportTrigger>>]_vars
    /\ []((~isProcessing /\ Mounted)
            => /\ exportTrigger < MaxTrigger => ENABLED handleStartProcessing
               /\ paths # <<>> => ENABLED UndoClick /\ ENABLED ClearClick)

\* After a failed request: editor mounted with its strokes, trigger already
\* incremented, nothing outstanding, no result.
C13_BackAfterFailure ==
    /\ Mounted /\ ~isProcessing /\ exportTrigger > 0 /\ requests = <<>>
    /\ paths # <<>>

\* C14: an export that follows another export of the same editor with no
\* change of the stroke model in between hands over the same mask.
C14_RepeatedExportSameMask ==
    [][(handed' # <<>> /\ prevMask # <<>>) => handed' = prevMask]_vars

\* The contract of the scaler in integers, s = n / d being the scale for a
\* container c and an image of imgW by imgH; lengths are taken times 10 so
\* that the fallback height, 0.6 of the window height, is an integer.
FitContract(c, imgW, imgH, s) ==
    LET cW == 10 * c[1]
        cH == IF c[2] # 0 THEN 10 * c[2] ELSE 6 * WindowInnerHeight
    IN  /\ s.d > 0
        /\ s.n <= s.d
        /\ 10 * imgW * s.n <= cW * s.d
        /\ 10 * imgH * s.n <= cH * s.d
        /\ \/ s.n = s.d
           \/ 10 * imgW * s.n = cW * s.d
           \/ 10 * imgH * s.n = cH * s.d

\* C15: for every container size and every positive image size the scale
\* set by the scaler is min(containerW / imgW, containerH / imgH, 1): it is
\* at most 1, the scaled image is no wider and no higher than the container
\* (the fallback height standing in for a measured height of 0), and one of
\* the three bounds is met.
C15_ScaleIsMin ==
    [][\A c \in FitContainers :
          handleResize(c)
            => FitContract(c, imgDimensions.width, imgDimensions.height,
                           scale')]_vars

\* An image as high as the bound, scaled down.
C15_ScaledDown ==
    /\ imgDimensions.height = MaxSide
    /\ 0 < scale.n /\ scale.n < scale.d

\* C16: once the image is decoded the display scale is strictly positive,
\* whatever the container measured at fit time or on resize, zero height and
\* zero width included.
C16_ScalePositive ==
    CanvasRendered => (scale.n > 0 /\ scale.d > 0)

\* C17: a pointer-down or pointer-move that reaches the canvas while it has
\* zero display width or height records nothing: completed strokes,
\* in-progress stroke and Idle / Drawing state are as before.
C17_ZeroSizeRecordsNothing ==
    [][(ZeroDisplay /\ \E e \in PointerEvents : startDrawing(e) \/ draw(e))
        => (paths' = paths /\ currentPath' = currentPath
            /\ isDrawing' = isDrawing)]_vars

\* C18: while the image dimensions are unknown (the decode has not
\* completed) the stroke model is empty and idle: no pointer or touch event
\* has mapped a point into it.
C18_NothingDrawnBeforeDecode ==
    imgDimensions.width = 0
        => (paths = <<>> /\ currentPath = <<>> /\ ~isDrawing)

\* The editor mounted and still decoding its image.
C18_Decoding ==
    Mounted /\ imgDimensions = NoDimensions /\ imageSrc \in decodes

\* C19: a pointer-move, and a pointer-up, pointer-leave or touch-end, that
\* arrives while not Drawing leaves the completed strokes and the
\* in-progress stroke as they are and the state Idle.
C19_MoveAndEndIgnoredWhenIdle ==
    [][(~isDrawing /\ ((\E e \in PointerEvents : draw(e)) \/ stopDrawing))
        => (paths' = paths /\ currentPath' = currentPath /\ ~isDrawing')]_vars

\* Idle over a canvas on screen that holds a stroke and has room for more:
\* moves and ends can arrive.
C19_IdleOverCanvas ==
    /\ CanvasRendered /\ ~ZeroDisplay /\ Room /\ ~isProcessing
    /\ ~isDrawing /\ paths # <<>>

Min(a, b) == IF a < b THEN a ELSE b

\* C20: no step changes the points or the width of a completed stroke that
\* stays in the collection, whatever the brush size becomes and whatever is
\* drawn later; strokes leave the collection only by undo, by clear, or with
\* the editor when it is unmounted.
C20_CompletedStrokesImmutable ==
    [][/\ \A i \in 1..Min(Len(paths), Len(paths')) : paths'[i] = paths[i]
       /\ Len(paths') < Len(paths) => (UndoClick \/ ClearClick \/ ~Mounted')]_vars

\* Two completed strokes, the first one drawn before the brush size was
\* changed to what it is now.
C20_OlderStrokeKeepsWidth ==
    /\ Len(paths) = 2
    /\ paths[1].size # brushSize /\ paths[2].size = brushSize

\* C21: every completed stroke has at least one point and a positive width
\* (a gesture that ends with an empty in-progress stroke is not promoted),
\* so points[0] read by the exporter exists.
C21_StrokesWellFormed ==
    \A i \in 1..Len(paths) :
        /\ Len(paths[i].points) >= 1
        /\ paths[i].size > 0

\* A completed stroke at the limits: one point, the smallest brush.
C21_SmallestStroke ==
    /\ paths # <<>>
    /\ Len(paths[1].points) = 1 /\ paths[1].size = 5

\* C22: at most one removeWatermark call is outstanding, and the processing
\* flag is true exactly while one is.
C22_OneRequestFlagExact ==
    /\ Len(requests) <= 1
    /\ isProcessing <=> requests # <<>>

\* A request made for an earlier image still outstanding while the editor
\* shows another image.
C22_OldRequestStillOut ==
    /\ Mounted /\ isProcessing /\ requests # <<>>
    /\ requests[1].src # imageSrc

\* C23: a processed image shown for a loaded source image is the result of
\* a request made for that source image.
C23_ResultBelongsToImage ==
    (imageSrc # NoImage /\ processedImage # NoImage)
        => processedImage = imageSrc

\* C24: whenever the gesture state is Idle the in-progress stroke is empty.
C24_IdleHasNoCurrentPath ==
    ~isDrawing => currentPath = <<>>

\* Idle right after a gesture ended and its stroke was promoted.
C24_GestureJustEnded ==
    ~isDrawing /\ startBrush # 0 /\ paths # <<>> /\ currentPath = <<>>

====
